---- MODULE Spec2Model ----
(***************************************************************************)
(* Model of the sensor viewer (src/main.rs): the periodic refresh of the   *)
(* single snapshot `sensor_data` and the line-oriented parser              *)
(* `parse_sensor_output` with its entry regex.                             *)
(*                                                                         *)
(* A Rust `String` / `&str` is modelled as a sequence of characters, each  *)
(* character a one-element TLA+ string.  The degree sign U+00B0 is written *)
(* "deg", the replacement character U+FFFD "uFFFD" and an ill-formed       *)
(* UTF-8 byte of the command's output "xFF".                               *)
(***************************************************************************)
EXTENDS Integers, Sequences, FiniteSets, TLC

(***************************************************************************)
(* Characters and string primitives of the Rust standard library.          *)
(***************************************************************************)

\* char::is_whitespace / regex \s (Unicode White_Space), as far as modelled
Whitespace == {" ", "\t", "\r", "\n"}

\* regex \d (decimal digits)
Digits == {"0", "1", "2", "3", "4", "5", "6", "7", "8", "9"}

\* the "Adapter:" marker of lines 249, 259, 260
AdapterMarker == <<"A", "d", "a", "p", "t", "e", "r", ":">>

\* s[from..] (1-based), empty when from is past the end
Drop(s, from) == SubSeq(s, from, Len(s))

\* str::starts_with
starts_with(s, p) == Len(s) >= Len(p) /\ SubSeq(s, 1, Len(p)) = p

\* str::contains(char)
contains(s, ch) == \E i \in 1..Len(s) : s[i] = ch

\* str::trim: strips leading and trailing whitespace
trim(s) ==
    LET keep == {i \in 1..Len(s) : s[i] \notin Whitespace}
    IN  IF keep = {} THEN <<>>
        ELSE LET lo == CHOOSE i \in keep : \A j \in keep : i <= j
                 hi == CHOOSE i \in keep : \A j \in keep : j <= i
             IN  SubSeq(s, lo, hi)

\* str::replace(from, to): every non-overlapping occurrence, left to right;
\* the replaced text is not scanned again
RECURSIVE replace(_, _, _)
replace(s, from, to) ==
    IF s = <<>> THEN <<>>
    ELSE IF starts_with(s, from)
         THEN to \o replace(Drop(s, Len(from) + 1), from, to)
         ELSE <<Head(s)>> \o replace(Tail(s), from, to)

\* str::lines: split at "\n", a final empty piece is not a line, and a
\* "\r" directly before the "\n" belongs to the line ending
RECURSIVE SplitNewline(_, _)
SplitNewline(s, cur) ==
    IF s = <<>> THEN (IF cur = <<>> THEN <<>> ELSE <<cur>>)
    ELSE IF Head(s) = "\n"
         THEN <<(IF cur # <<>> /\ cur[Len(cur)] = "\r"
                 THEN SubSeq(cur, 1, Len(cur) - 1) ELSE cur)>>
              \o SplitNewline(Tail(s), <<>>)
         ELSE SplitNewline(Tail(s), Append(cur, Head(s)))

lines(s) == SplitNewline(s, <<>>)

\* String::from_utf8_lossy: ill-formed bytes become U+FFFD
from_utf8_lossy(bytes) ==
    [i \in 1..Len(bytes) |-> IF bytes[i] = "xFF" THEN "uFFFD" ELSE bytes[i]]

(***************************************************************************)
(* A backtracking matcher with the priorities of the regex crate           *)
(* (leftmost-first: greedy repetitions try more first, lazy ones less      *)
(* first, alternations try left to right).  Run returns, in priority       *)
(* order, every way the node can match at position i: the position after   *)
(* the match and the capture groups as <<start, end>> (end exclusive,      *)
(* <<0, 0>> = did not participate).                                        *)
(***************************************************************************)
Chr(cs) == [t |-> "chr", cs |-> cs]
AnyChar == [t |-> "any"]
Bol == [t |-> "bol"]
Eol == [t |-> "eol"]
Cat(rs) == [t |-> "cat", rs |-> rs]
Alt(rs) == [t |-> "alt", rs |-> rs]
\* max = -1: unbounded
Rep(r, min, max, greedy) == [t |-> "rep", r |-> r, min |-> min, max |-> max, greedy |-> greedy]
Cap(name, r) == [t |-> "cap", name |-> name, r |-> r]
Lit(str) == Cat([k \in 1..Len(str) |-> Chr({str[k]})])
Opt(r) == Rep(r, 0, 1, TRUE)

NoCap == <<0, 0>>
NoCaps == [key |-> NoCap, value |-> NoCap, info |-> NoCap]

RECURSIVE Run(_, _, _, _)
RECURSIVE RunCat(_, _, _, _, _)
RECURSIVE RunCatEach(_, _, _, _, _)
RECURSIVE RunAlt(_, _, _, _, _)
RECURSIVE RunRep(_, _, _, _, _)
RECURSIVE RunRepEach(_, _, _, _, _)

Run(r, s, i, c) ==
    CASE r.t = "chr" -> IF i <= Len(s) /\ s[i] \in r.cs
                        THEN <<[pos |-> i + 1, caps |-> c]>> ELSE <<>>
      [] r.t = "any" -> IF i <= Len(s) /\ s[i] # "\n"
                        THEN <<[pos |-> i + 1, caps |-> c]>> ELSE <<>>
      [] r.t = "bol" -> IF i = 1 THEN <<[pos |-> i, caps |-> c]>> ELSE <<>>
      [] r.t = "eol" -> IF i = Len(s) + 1 THEN <<[pos |-> i, caps |-> c]>> ELSE <<>>
      [] r.t = "cat" -> RunCat(r.rs, 1, s, i, c)
      [] r.t = "alt" -> RunAlt(r.rs, 1, s, i, c)
      [] r.t = "rep" -> RunRep(r, 0, s, i, c)
      [] r.t = "cap" ->
            LET inner == Run(r.r, s, i, c)
            IN  [k \in 1..Len(inner) |->
                    [pos |-> inner[k].pos,
                     caps |-> [inner[k].caps EXCEPT ![r.name] = <<i, inner[k].pos>>]]]

\* rs[j..] in sequence, starting at i
RunCat(rs, j, s, i, c) ==
    IF j > Len(rs) THEN <<[pos |-> i, caps |-> c]>>
    ELSE RunCatEach(Run(rs[j], s, i, c), rs, j, s, 1)

RunCatEach(outs, rs, j, s, k) ==
    IF k > Len(outs) THEN <<>>
    ELSE RunCat(rs, j + 1, s, outs[k].pos, outs[k].caps)
         \o RunCatEach(outs, rs, j, s, k + 1)

\* rs[j], else rs[j+1], ...
RunAlt(rs, j, s, i, c) ==
    IF j > Len(rs) THEN <<>>
    ELSE Run(rs[j], s, i, c) \o RunAlt(rs, j + 1, s, i, c)

\* r.r repeated, n iterations done so far
RunRep(r, n, s, i, c) ==
    LET more == IF r.max # -1 /\ n >= r.max THEN <<>>
                ELSE RunRepEach(Run(r.r, s, i, c), r, n, s, 1)
        stop == IF n >= r.min THEN <<[pos |-> i, caps |-> c]>> ELSE <<>>
    IN  IF r.greedy THEN more \o stop ELSE stop \o more

RunRepEach(outs, r, n, s, k) ==
    IF k > Len(outs) THEN <<>>
    ELSE RunRep(r, n + 1, s, outs[k].pos, outs[k].caps)
         \o RunRepEach(outs, r, n, s, k + 1)

\* Regex::captures: the leftmost match, and at that start the first in
\* priority order; <<>> when there is none (None), else <<caps>> (Some)
RECURSIVE CapturesFrom(_, _, _)
CapturesFrom(re, s, start) ==
    IF start > Len(s) + 1 THEN <<>>
    ELSE LET outs == Run(re, s, start, NoCaps)
         IN  IF outs # <<>> THEN <<outs[1].caps>>
             ELSE CapturesFrom(re, s, start + 1)

captures(re, s) == CapturesFrom(re, s, 1)

\* the text of a capture group that participated
CapText(s, span) == SubSeq(s, span[1], span[2] - 1)

(***************************************************************************)
(* ENTRY_REGEX (main.rs 232-241), written in (?x) mode:                    *)
(*   ^(?P<key>.+?):\s+                                                     *)
(*   (?P<value>[+-]?\d+\.?\d*\s?(degC|RPM|V|W|%|mA)?)                      *)
(*   (\s+\((?P<info>.+?)\))?$                                              *)
(***************************************************************************)
UnitAlternatives ==
    <<Lit(<<"deg", "C">>), Lit(<<"R", "P", "M">>), Lit(<<"V">>),
      Lit(<<"W">>), Lit(<<"%">>), Lit(<<"m", "A">>)>>

\* the key taken greedily (.+ for .+?)
ENTRY_REGEX_greedy_key ==
    Cat(<<Bol,
          Cap("key", Rep(AnyChar, 1, -1, TRUE)),
          Chr({":"}),
          Rep(Chr(Whitespace), 1, -1, TRUE),
          Cap("value",
              Cat(<<Opt(Chr({"+", "-"})),
                    Rep(Chr(Digits), 1, -1, TRUE),
                    Opt(Chr({"."})),
                    Rep(Chr(Digits), 0, -1, TRUE),
                    Opt(Chr(Whitespace)),
                    Opt(Alt(UnitAlternatives))>>)),
          Opt(Cat(<<Rep(Chr(Whitespace), 1, -1, TRUE),
                    Chr({"("}),
                    Cap("info", Rep(AnyChar, 1, -1, FALSE)),
                    Chr({")"})>>)),
          Eol>>)

ENTRY_REGEX ==
    Cat(<<Bol,
          Cap("key", Rep(AnyChar, 1, -1, FALSE)),
          Chr({":"}),
          Rep(Chr(Whitespace), 1, -1, TRUE),
          Cap("value",
              Cat(<<Opt(Chr({"+", "-"})),
                    Rep(Chr(Digits), 1, -1, TRUE),
                    Opt(Chr({"."})),
                    Rep(Chr(Digits), 0, -1, TRUE),
                    Opt(Chr(Whitespace)),
                    Opt(Alt(UnitAlternatives))>>)),
          Opt(Cat(<<Rep(Chr(Whitespace), 1, -1, TRUE),
                    Chr({"("}),
                    Cap("info", Rep(AnyChar, 1, -1, FALSE)),
                    Chr({")"})>>)),
          Eol>>)

(***************************************************************************)
(* Result<Vec<SensorSection>, String>, Option<T> as a sequence of at most  *)
(* one element, and the loop of parse_sensor_output (main.rs 228-280).     *)
(***************************************************************************)
Ok(v) == [ok |-> TRUE, val |-> v, err |-> <<>>]
Err(e) == [ok |-> FALSE, val |-> <<>>, err |-> e]
None == <<>>
Some(x) == <<x>>

\* line 249: the test that opens a new section
is_header(line) == ~contains(line, ":") /\ ~starts_with(line, AdapterMarker)

\* lines 253-257
new_section(line) == [name |-> line, adapter |-> <<>>, entries |-> <<>>]

\* the sealed section put in front of the others
open_section_front(st, line) ==
    [sections |-> IF st.current_section # None
                  THEN <<st.current_section[1]>> \o st.sections
                  ELSE st.sections,
     current_section |-> Some(new_section(line))]

\* a section without entries is not kept
open_section_skip_empty(st, line) ==
    [sections |-> IF st.current_section # None /\ st.current_section[1].entries # <<>>
                  THEN Append(st.sections, st.current_section[1])
                  ELSE st.sections,
     current_section |-> Some(new_section(line))]

\* lines 250-257: seal the open section, open the next
open_section(st, line) ==
    [sections |-> IF st.current_section # None
                  THEN Append(st.sections, st.current_section[1])
                  ELSE st.sections,
     current_section |-> Some(new_section(line))]

\* line 260
set_adapter(section, line) ==
    [section EXCEPT !.adapter = trim(replace(line, AdapterMarker, <<>>))]

\* the value stored as captured, without trim
make_entry_raw_value(line, caps) ==
    [key |-> CapText(line, caps.key),
     value |-> CapText(line, caps.value),
     additional_info |-> IF caps.info = NoCap THEN None
                         ELSE Some(CapText(line, caps.info))]

\* lines 262-266
make_entry(line, caps) ==
    [key |-> CapText(line, caps.key),
     value |-> trim(CapText(line, caps.value)),
     additional_info |-> IF caps.info = NoCap THEN None
                         ELSE Some(CapText(line, caps.info))]

\* line 267
push_entry(section, entry) ==
    [section EXCEPT !.entries = Append(@, entry)]

\* a line that matches nothing closes the open section
in_section_abort(st, line) ==
    IF st.current_section = None THEN st
    ELSE LET section == st.current_section[1]
             caps == captures(ENTRY_REGEX, line)
         IN  IF starts_with(line, AdapterMarker)
             THEN [st EXCEPT !.current_section = Some(set_adapter(section, line))]
             ELSE IF caps # None
                  THEN [st EXCEPT !.current_section =
                            Some(push_entry(section, make_entry(line, caps[1])))]
                  ELSE [st EXCEPT !.current_section = None]

\* a line before any header opens a section without a name
in_section_opens(st, line) ==
    LET section == IF st.current_section = None THEN new_section(<<>>)
                   ELSE st.current_section[1]
        caps == captures(ENTRY_REGEX, line)
    IN  IF starts_with(line, AdapterMarker)
        THEN [st EXCEPT !.current_section = Some(set_adapter(section, line))]
        ELSE IF caps # None
             THEN [st EXCEPT !.current_section =
                       Some(push_entry(section, make_entry(line, caps[1])))]
             ELSE st

\* an entry is also pushed onto the section sealed last
in_section_shared(st, line) ==
    IF st.current_section = None THEN st
    ELSE LET section == st.current_section[1]
             caps == captures(ENTRY_REGEX, line)
             n == Len(st.sections)
         IN  IF starts_with(line, AdapterMarker)
             THEN [st EXCEPT !.current_section = Some(set_adapter(section, line))]
             ELSE IF caps # None
                  THEN [sections |->
                            IF n = 0 THEN st.sections
                            ELSE [st.sections EXCEPT ![n] =
                                     push_entry(@, make_entry(line, caps[1]))],
                        current_section |->
                            Some(push_entry(section, make_entry(line, caps[1])))]
                  ELSE st

\* lines 258-269: a line with a colon, or an adapter line
in_section(st, line) ==
    IF st.current_section = None THEN st
    ELSE LET section == st.current_section[1]
             caps == captures(ENTRY_REGEX, line)
         IN  IF starts_with(line, AdapterMarker)
             THEN [st EXCEPT !.current_section = Some(set_adapter(section, line))]
             ELSE IF caps # None
                  THEN [st EXCEPT !.current_section =
                            Some(push_entry(section, make_entry(line, caps[1])))]
                  ELSE st

\* lines 244-269: one iteration of the loop on one raw line
LoopBody(st, raw) ==
    LET line == trim(raw)
    IN  IF line = <<>> THEN st
        ELSE IF is_header(line) THEN open_section(st, line)
        ELSE in_section(st, line)

\* lines 272-274
seal_last(st) ==
    IF st.current_section # None
    THEN Append(st.sections, st.current_section[1])
    ELSE st.sections

\* the sections returned without the test of lines 276-277
parse_result_unchecked(secs) == Ok(secs)

\* lines 276-280
parse_result(secs) ==
    IF secs = <<>> THEN Err(<<"No sensor data found">>) ELSE Ok(secs)

\* lines 229-230
ParseStart == [sections |-> <<>>, current_section |-> None]

RECURSIVE ParseLoop(_, _, _)
ParseLoop(st, ls, i) ==
    IF i > Len(ls) THEN st ELSE ParseLoop(LoopBody(st, ls[i]), ls, i + 1)

\* the parse of a sequence of raw lines
ParseLines(ls) == parse_result(seal_last(ParseLoop(ParseStart, ls, 1)))

parse_sensor_output(input) == ParseLines(lines(input))

\* read_sensor_data (main.rs 212-226) on one run of the command:
\* run.launched = FALSE: Command::output failed with error run.error;
\* otherwise the exit status, stdout and stderr bytes of the child
read_sensor_data(run) ==
    IF ~run.launched
    THEN Err(<<"Failed to execute sensors command: ", run.error>>)
    ELSE IF ~run.success
         THEN Err(<<"sensors command failed: ", from_utf8_lossy(run.stderr)>>)
         ELSE parse_sensor_output(from_utf8_lossy(run.stdout))

(***************************************************************************)
(* Bounds and the inputs drawn within them.                                *)
(***************************************************************************)
\* Refresh ticks followed
MaxTicks == 2
\* lines of a text put together from LinePool
MaxLines == 3
\* lines of a text put together from LongPool
MaxLongLines == 5
\* length of the lines enumerated exhaustively over Alphabet
MaxLineLen == 4

Alphabet == {"k", ":", " ", "1", ".", "V"}

RECURSIVE Concat(_)
Concat(ss) == IF ss = <<>> THEN <<>> ELSE Head(ss) \o Concat(Tail(ss))

\* the raw lines joined by "\n"
RECURSIVE JoinLines(_)
JoinLines(ls) ==
    IF ls = <<>> THEN <<>>
    ELSE IF Len(ls) = 1 THEN ls[1]
    ELSE ls[1] \o <<"\n">> \o JoinLines(Tail(ls))

SeqsUpTo(S, n) == UNION {[1..m -> S] : m \in 0..n}

\* raw lines of every kind the loop distinguishes
LinePool ==
    { <<>>,
      <<" ">>,
      <<"h">>,
      <<" ", "g", "\r">>,
      AdapterMarker \o <<" ", "x">>,
      AdapterMarker \o <<" ", "y", " ">> \o AdapterMarker \o <<"z">>,
      <<"k", ":", " ", "1">>,
      <<"j", " ", ":", "\t", "2", " ", "V", " ", " ", "(", "i", ")">>,
      <<"k", ":", " ", "x">> }

\* fewer kinds, for longer texts
LongPool ==
    { <<" ">>,
      <<"h">>,
      <<"k", ":", " ", "1">>,
      <<"j", ":", " ", "2", "V">> }

\* parts of entry-like lines, well-formed and not
KeyPool ==
    { <<"k">>, <<"C", " ", "0">>, <<"k", " ">>, <<"a", ":", "b">>,
      <<"a", ":", " ", "b">>, <<"A", "d", "a", "p", "t", "e", "r">>,
      <<"k", ":", " ", "1", " ", "(", "x">> }
SepPool == { <<":", " ">>, <<":", "\t", " ">>, <<":">> }
ValuePool ==
    { <<"1">>, <<"+", "1", ".", "5">>, <<"-", "2", ".">>, <<"1", "V">>,
      <<"1", " ", "V">>, <<"1", "2", " ", "R", "P", "M">>, <<"1", ".", "0", "deg", "C">>,
      <<"1", "%">>, <<"1", "m", "A">>, <<"1", "\t", "W">>,
      <<"1", " ", " ", "V">>, <<"1", "X">>, <<".", "5">>, <<"+">> }
AnnotPool ==
    { <<>>, <<" ", "(", "i", ")">>, <<" ", " ", "(", "a", ")", " ", "(", "b", ")">>,
      <<"(", "i", ")">>, <<" ", "x">>, <<" ", "(", ")">> }

EntryShapes ==
    { k \o s \o v \o a : k \in KeyPool, s \in SepPool, v \in ValuePool, a \in AnnotPool }

\* the texts parsed: up to MaxLines pool lines, or a header and one line
Texts ==
    { JoinLines(ls) : ls \in SeqsUpTo(LinePool, MaxLines) }
    \cup { JoinLines(ls) : ls \in SeqsUpTo(LongPool, MaxLongLines) }
    \cup { <<"h", "\n">> \o l : l \in SeqsUpTo(Alphabet, MaxLineLen) \cup EntryShapes }

\* runs of the `sensors` command: it could not be started, it exited
\* with a failure status, or it succeeded with some output
Stdouts ==
    { JoinLines(ls) : ls \in SeqsUpTo({ <<"h">>, <<"k", ":", " ", "1">>, <<"xFF">> }, 2) }
Runs ==
    { [launched |-> FALSE, error |-> e, success |-> FALSE, stdout |-> <<>>, stderr |-> <<>>] :
        e \in { <<"E", "N", "O", "E", "N", "T">> } }
    \cup { [launched |-> TRUE, error |-> <<>>, success |-> FALSE, stdout |-> o, stderr |-> e] :
        o \in { <<>>, <<"h">> }, e \in { <<>>, <<"e", "xFF">> } }
    \cup { [launched |-> TRUE, error |-> <<>>, success |-> TRUE, stdout |-> o, stderr |-> <<>>] :
        o \in Stdouts }

(***************************************************************************)
(* State.                                                                  *)
(*   sensor_data      SensorViewer.sensor_data, the snapshot               *)
(*   last_run         the run of the command the latest read used          *)
(*   before_tick      the snapshot the latest tick found (None at start)   *)
(*   ticks            Refresh messages handled                             *)
(*   input, input_lines, pos, sections, current_section, pc, result        *)
(*                    one call of parse_sensor_output: its argument, the   *)
(*                    lines input.lines() iterates over and the index of   *)
(*                    the next one, its two locals, where it is and what   *)
(*                    it returned                                          *)
(***************************************************************************)
VARIABLES sensor_data, last_run, before_tick, ticks,
          input, input_lines, pos, sections, current_section, pc, result

app_vars == <<sensor_data, last_run, before_tick, ticks>>
parse_vars == <<input, input_lines, pos, sections, current_section, pc, result>>
vars == <<sensor_data, last_run, before_tick, ticks,
          input, input_lines, pos, sections, current_section, pc, result>>

\* a failed read keeps the sections read before
update_keep_on_error(self, message, fresh) ==
    IF message = "Refresh" /\ (fresh.ok \/ ~self.ok) THEN fresh ELSE self

\* SensorViewer::update (main.rs 72-79): the snapshot after the message,
\* fresh being what read_sensor_data() returned
update(self, message, fresh) ==
    IF message = "Refresh" THEN fresh ELSE self

\* no call of the parser in progress
NoCall ==
    /\ input = <<>> /\ input_lines = <<>> /\ pos = 1
    /\ sections = <<>> /\ current_section = None
    /\ pc = "idle" /\ result = None

\* SensorViewer::new (main.rs 59-66)
Init ==
    /\ \E run \in Runs :
          /\ last_run = run
          /\ sensor_data = read_sensor_data(run)
    /\ before_tick = None
    /\ ticks = 0
    /\ NoCall

\* one Refresh message from the subscription (main.rs 109-111, 72-79)
Refresh ==
    /\ ticks < MaxTicks
    /\ \E run \in Runs :
          /\ last_run' = run
          /\ sensor_data' = update(sensor_data, "Refresh", read_sensor_data(run))
    /\ before_tick' = Some(sensor_data)
    /\ ticks' = ticks + 1
    /\ UNCHANGED parse_vars

Next == Refresh

Spec == Init /\ [][Next]_vars

(***************************************************************************)
(* parse_sensor_output followed line by line.                              *)
(***************************************************************************)
\* the application as started without the sensors command
NotRunning ==
    /\ last_run = [launched |-> FALSE, error |-> <<"E", "N", "O", "E", "N", "T">>,
                   success |-> FALSE, stdout |-> <<>>, stderr |-> <<>>]
    /\ sensor_data = read_sensor_data(last_run)
    /\ before_tick = None
    /\ ticks = 0

\* entry of parse_sensor_output (main.rs 228-230)
InitParse ==
    /\ NotRunning
    /\ input \in Texts
    /\ input_lines = lines(input)
    /\ pos = 1
    /\ sections = <<>>
    /\ current_section = None
    /\ pc = "loop"
    /\ result = None

\* the line the loop is at, trimmed (line 244)
AtLine == pc = "loop" /\ pos <= Len(input_lines)
CurLine == trim(input_lines[pos])

\* the loop body applied to the line at pos
Iterate ==
    LET st == LoopBody([sections |-> sections, current_section |-> current_section],
                       input_lines[pos])
    IN  /\ sections' = st.sections
        /\ current_section' = st.current_section
        /\ pos' = pos + 1
        /\ UNCHANGED <<input, input_lines, pc, result, app_vars>>

\* lines 245-247
SkipBlank == AtLine /\ CurLine = <<>> /\ Iterate

\* lines 249-257
OpenSection == AtLine /\ CurLine # <<>> /\ is_header(CurLine) /\ Iterate

\* line 258 with no section open: the line is passed over
BeforeSection ==
    /\ AtLine /\ CurLine # <<>> /\ ~is_header(CurLine)
    /\ current_section = None
    /\ Iterate

\* lines 259-260
AdapterLine ==
    /\ AtLine /\ CurLine # <<>> /\ ~is_header(CurLine)
    /\ current_section # None
    /\ starts_with(CurLine, AdapterMarker)
    /\ Iterate

\* lines 261-268
EntryLine ==
    /\ AtLine /\ CurLine # <<>> /\ ~is_header(CurLine)
    /\ current_section # None
    /\ ~starts_with(CurLine, AdapterMarker)
    /\ captures(ENTRY_REGEX, CurLine) # None
    /\ Iterate

\* line 261 not matching: nothing happens
NoMatch ==
    /\ AtLine /\ CurLine # <<>> /\ ~is_header(CurLine)
    /\ current_section # None
    /\ ~starts_with(CurLine, AdapterMarker)
    /\ captures(ENTRY_REGEX, CurLine) = None
    /\ Iterate

\* lines 272-280
Finish ==
    /\ pc = "loop" /\ pos > Len(input_lines)
    /\ sections' = seal_last([sections |-> sections, current_section |-> current_section])
    /\ current_section' = None
    /\ result' = Some(parse_result(sections'))
    /\ pc' = "done"
    /\ UNCHANGED <<input, input_lines, pos, app_vars>>

NextParse ==
    \/ SkipBlank
    \/ OpenSection
    \/ BeforeSection
    \/ AdapterLine
    \/ EntryLine
    \/ NoMatch
    \/ Finish

SpecParse == InitParse /\ [][NextParse]_vars

(***************************************************************************)
(* The text as the claims describe it: its lines, its header lines and the *)
(* entry grammar of the specification, stated by the parts of a line       *)
(* rather than by a matcher.                                               *)
(***************************************************************************)
\* input.lines(), as split at the entry of the parse
TextLines == input_lines
Trimmed(i) == trim(TextLines[i])

\* a header line: trimmed, non-empty, free of a colon
IsHeaderLine(t) == t # <<>> /\ ~contains(t, ":")
HeaderIdx == {i \in 1..Len(TextLines) : IsHeaderLine(Trimmed(i))}
\* the j-th header line, and the last line before the next header
HeaderAt(j) == CHOOSE i \in HeaderIdx : Cardinality({h \in HeaderIdx : h < i}) = j - 1
SpanEnd(j) == IF j < Cardinality(HeaderIdx) THEN HeaderAt(j + 1) - 1 ELSE Len(TextLines)

AllIn(s, S) == \A i \in 1..Len(s) : s[i] \in S

\* [+-]? digits, an optional point, digits
IsNumber(s) ==
    LET body == IF s # <<>> /\ s[1] \in {"+", "-"} THEN Tail(s) ELSE s
    IN  /\ body # <<>>
        /\ body[1] \in Digits
        /\ AllIn(body, Digits \cup {"."})
        /\ Cardinality({i \in 1..Len(body) : body[i] = "."}) <= 1

UnitSet ==
    { <<"deg", "C">>, <<"R", "P", "M">>, <<"V">>, <<"W">>, <<"%">>, <<"m", "A">> }

\* a number, an optional single whitespace, an optional unit
IsValue(s) ==
    \E n \in 1..Len(s) :
        /\ IsNumber(SubSeq(s, 1, n))
        /\ LET r == Drop(s, n + 1)
           IN  \/ r = <<>>
               \/ r \in UnitSet
               \/ r[1] \in Whitespace /\ (Tail(r) = <<>> \/ Tail(r) \in UnitSet)

\* nothing, or whitespace and a non-empty text in parentheses up to the end
IsAnnotation(s) ==
    \/ s = <<>>
    \/ \E w \in 1..(Len(s) - 3) :
          /\ AllIn(SubSeq(s, 1, w), Whitespace)
          /\ s[w + 1] = "("
          /\ s[Len(s)] = ")"

\* the ways to read t as key, ":", whitespace, value, annotation:
\* <<k, a, b>> = key t[1..k], whitespace t[k+2..a], value t[a+1..b]
Readings(t) ==
    { d \in UNION { UNION { { <<k, a, b>> : b \in (a + 1)..Len(t) }
                              : a \in (k + 2)..Len(t) }
                      : k \in {k \in 1..Len(t) : k < Len(t) /\ t[k + 1] = ":"} } :
        /\ AllIn(SubSeq(t, d[1] + 2, d[2]), Whitespace)
        /\ IsValue(SubSeq(t, d[2] + 1, d[3]))
        /\ IsAnnotation(Drop(t, d[3] + 1)) }

\* the text inside the parentheses of a non-empty annotation
AnnotationText(s) ==
    LET open == CHOOSE i \in 1..Len(s) : s[i] = "(" /\ \A j \in 1..(i - 1) : s[j] # "("
    IN  SubSeq(s, open + 1, Len(s) - 1)

\* the Entry a reading stands for
EntryOfReading(t, d) ==
    [key |-> SubSeq(t, 1, d[1]),
     value |-> trim(SubSeq(t, d[2] + 1, d[3])),
     additional_info |-> IF d[3] = Len(t) THEN None
                         ELSE Some(AnnotationText(Drop(t, d[3] + 1)))]

\* the reading with the shortest key
ShortestReadings(t) ==
    { d \in Readings(t) : \A e \in Readings(t) : d[1] <= e[1] }

IsAdapterLine(t) == starts_with(t, AdapterMarker)

\* the entries the matching lines a..b stand for, in line order
RECURSIVE EntriesBetween(_, _)
EntriesBetween(a, b) ==
    IF a > b THEN <<>>
    ELSE LET t == Trimmed(a)
             caps == captures(ENTRY_REGEX, t)
         IN  (IF t # <<>> /\ contains(t, ":") /\ ~IsAdapterLine(t) /\ caps # None
              THEN <<make_entry(t, caps[1])>> ELSE <<>>)
             \o EntriesBetween(a + 1, b)

Done == pc = "done"
Returned == result[1]

NoData == Err(<<"No sensor data found">>)
IsPrefix(a, b) == Len(a) <= Len(b) /\ SubSeq(b, 1, Len(a)) = a
RemoveAt(ls, i) == SubSeq(ls, 1, i - 1) \o SubSeq(ls, i + 1, Len(ls))

(***************************************************************************)
(* The claims.                                                             *)
(***************************************************************************)

\* C1: at startup and after any number of Refresh ticks the snapshot is
\* never Ok with an empty section sequence: when the parse of the command's
\* output collects zero sections the snapshot is the error "No sensor data
\* found", otherwise it is Ok with the non-empty sequence collected.
C1_SnapshotNeverOkEmpty ==
    /\ sensor_data.ok => sensor_data.val # <<>>
    /\ last_run.launched /\ last_run.success =>
          LET secs == seal_last(ParseLoop(ParseStart,
                                          lines(from_utf8_lossy(last_run.stdout)), 1))
          IN  IF secs = <<>> THEN sensor_data = NoData
              ELSE sensor_data = Ok(secs) /\ Len(sensor_data.val) > 0

\* a tick has read output with lines but no header: the snapshot is the error
C1_Witness ==
    /\ ticks > 0
    /\ last_run.launched /\ last_run.success /\ last_run.stdout # <<>>
    /\ sensor_data = NoData

\* C2: every Refresh tick overwrites the snapshot with the result of that
\* tick's run-command-then-parse, whatever the old and the new value are:
\* the snapshot is a function of the latest run alone, and after Success(A)
\* a tick whose command fails leaves that error and nothing of A.
C2_TickOverwrites ==
    /\ sensor_data = read_sensor_data(last_run)
    /\ ~(last_run.launched /\ last_run.success) =>
          /\ ~sensor_data.ok
          /\ sensor_data.val = <<>>
          /\ sensor_data.err[1] \in {"Failed to execute sensors command: ",
                                      "sensors command failed: "}

\* the tick found Success(A) and its command failed
C2_Witness ==
    /\ ticks > 0
    /\ before_tick # None /\ before_tick[1].ok /\ before_tick[1].val # <<>>
    /\ ~(last_run.launched /\ last_run.success)
    /\ ~sensor_data.ok

\* C3: the sections returned are in the order of their header lines, and
\* the entries of each are exactly the matching entry lines between its
\* header and the next header (or the end of the text), in line order.
C3_OrderAndOwnership ==
    Done /\ Returned.ok =>
        /\ Len(Returned.val) = Cardinality(HeaderIdx)
        /\ \A j \in 1..Len(Returned.val) :
              /\ Returned.val[j].name = Trimmed(HeaderAt(j))
              /\ Returned.val[j].entries = EntriesBetween(HeaderAt(j) + 1, SpanEnd(j))

\* two sections with a blank line between them, each with its own entry
C3_Witness ==
    /\ Done /\ Returned.ok /\ Len(Returned.val) = 2
    /\ Returned.val[1].entries # <<>>
    /\ Returned.val[2].entries # <<>>
    /\ Returned.val[1].entries # Returned.val[2].entries
    /\ \E i \in HeaderAt(1)..HeaderAt(2) : Trimmed(i) = <<>>

\* C4: the adapter of a section is the text of its last adapter line after
\* the leading "Adapter:" marker, trimmed.
C4_AdapterIsRemainderAfterLeadingMarker ==
    Done /\ Returned.ok =>
        \A j \in 1..Len(Returned.val) :
            LET A == {i \in (HeaderAt(j) + 1)..SpanEnd(j) : IsAdapterLine(Trimmed(i))}
            IN  A # {} =>
                  LET last == CHOOSE i \in A : \A k \in A : k <= i
                  IN  Returned.val[j].adapter =
                          trim(Drop(Trimmed(last), Len(AdapterMarker) + 1))

\* a line with a colon that is no adapter line and has no reading as an entry
IsDroppedLine(t) == contains(t, ":") /\ ~IsAdapterLine(t) /\ Readings(t) = {}

\* C5: a line with a colon that is no adapter line and does not match the
\* entry grammar is dropped: the step over it changes neither the sealed
\* sections nor the open one and goes on with the next line, and the parse
\* returns what it returns for the text without that line.
C5_DroppedLineHasNoEffect ==
    [][ /\ AtLine /\ IsDroppedLine(CurLine) =>
              /\ sections' = sections
              /\ current_section' = current_section
              /\ pc' = "loop" /\ pos' = pos + 1
        /\ pc' = "done" =>
              \A i \in 1..Len(TextLines) :
                  IsDroppedLine(Trimmed(i)) =>
                      result' = Some(ParseLines(RemoveAt(TextLines, i))) ]_vars

\* a dropped line was passed inside a section that went on to take an entry
C5_Witness ==
    /\ Done /\ Returned.ok
    /\ \E i \in 1..Len(TextLines) :
          /\ IsDroppedLine(Trimmed(i))
          /\ \E j \in 1..Len(Returned.val) :
                /\ HeaderAt(j) < i /\ i < SpanEnd(j)
                /\ EntriesBetween(i + 1, SpanEnd(j)) # <<>>
                /\ Returned.val[j].entries # <<>>

\* C6: the parse returns the "no data found" error exactly when the text
\* has no header line, in particular when it has no non-empty line;
\* adapter and entry lines before the first header open no section and
\* add nothing to the result.
C6_NoDataIffNoHeader ==
    /\ pc = "loop" /\ (\A i \in HeaderIdx : i >= pos) =>
          sections = <<>> /\ current_section = None
    /\ Done =>
          /\ Returned.ok <=> HeaderIdx # {}
          /\ ~Returned.ok => Returned = NoData
          /\ HeaderIdx # {} =>
                Returned = ParseLines(Drop(TextLines, HeaderAt(1)))

\* an adapter line and a well-formed entry line, no header: the error
C6_Witness ==
    /\ Done /\ Returned = NoData
    /\ \E i \in 1..Len(TextLines) : IsAdapterLine(Trimmed(i))
    /\ \E i \in 1..Len(TextLines) :
          ~IsAdapterLine(Trimmed(i)) /\ Readings(Trimmed(i)) # {}

\* a text of exactly one header line and then one line with a reading as
\* key, separator, value and optional annotation
HeaderAndEntryText ==
    /\ Len(TextLines) = 2
    /\ IsHeaderLine(Trimmed(1))
    /\ Readings(Trimmed(2)) # {}

OneSectionOneEntry(d) ==
    Ok(<<[name |-> Trimmed(1), adapter |-> <<>>,
          entries |-> <<EntryOfReading(Trimmed(2), d)>>]>>)

\* C7 as stated: for every text of one header line and one well-formed
\* entry line the parse returns one Section named by the header, with empty
\* adapter and one Entry whose key, value and additional_info are the parts
\* of the line.
C7_AsStated ==
    Done /\ HeaderAndEntryText =>
        \A d \in Readings(Trimmed(2)) : Returned = OneSectionOneEntry(d)

\* C7 amended: the same for an entry line that does not begin with
\* "Adapter:", the parts being those of the reading with the shortest key
\* (the reading whose key has no colon, when there is one).
C7_HeaderAndEntry ==
    Done /\ HeaderAndEntryText /\ ~IsAdapterLine(Trimmed(2)) =>
        /\ \A d \in ShortestReadings(Trimmed(2)) : Returned = OneSectionOneEntry(d)
        /\ \A d \in Readings(Trimmed(2)) :
              ~contains(SubSeq(Trimmed(2), 1, d[1]), ":") =>
                  Returned = OneSectionOneEntry(d)

\* header and "C 0: <number><unit> (..)": one entry with its annotation
C7_Witness ==
    /\ Done /\ HeaderAndEntryText /\ ~IsAdapterLine(Trimmed(2))
    /\ Returned.ok /\ Len(Returned.val) = 1 /\ Len(Returned.val[1].entries) = 1
    /\ Returned.val[1].entries[1].key = <<"C", " ", "0">>
    /\ Returned.val[1].entries[1].value = <<"1", ".", "0", "deg", "C">>
    /\ Returned.val[1].entries[1].additional_info = Some(<<"i">>)

\* the loop has just pushed an Entry for the line before pos
EntryJustPushed ==
    /\ pc = "loop" /\ pos > 1 /\ current_section # None
    /\ LET t == Trimmed(pos - 1)
       IN  /\ t # <<>> /\ contains(t, ":") /\ ~IsAdapterLine(t)
           /\ captures(ENTRY_REGEX, t) # None
PushedLine == Trimmed(pos - 1)
PushedKey == current_section[1].entries[Len(current_section[1].entries)].key

ColonThenSpace(t, i) == t[i] = ":" /\ i < Len(t) /\ t[i + 1] \in Whitespace

\* C8 as stated: the key is the trimmed line up to its first colon that is
\* followed by whitespace, trimmed; it holds no colon followed by
\* whitespace and does not end in whitespace.
C8_AsStated ==
    EntryJustPushed =>
        LET t == PushedLine
            c == CHOOSE i \in 1..Len(t) :
                     ColonThenSpace(t, i) /\ \A j \in 1..(i - 1) : ~ColonThenSpace(t, j)
        IN  /\ PushedKey = trim(SubSeq(t, 1, c - 1))
            /\ \A i \in 1..Len(PushedKey) : ~ColonThenSpace(PushedKey, i)
            /\ PushedKey[Len(PushedKey)] \notin Whitespace

\* C8 amended: the key is the shortest non-empty prefix of the trimmed
\* line that is followed by a colon and whitespace after which the rest of
\* the line is a value and an optional annotation; it is stored as matched,
\* so it never starts with whitespace.
C8_KeyIsShortestPrefix ==
    EntryJustPushed =>
        /\ ShortestReadings(PushedLine) # {}
        /\ \A d \in ShortestReadings(PushedLine) :
              /\ PushedKey = SubSeq(PushedLine, 1, d[1])
              /\ ColonThenSpace(PushedLine, d[1] + 1)
        /\ PushedKey # <<>>
        /\ PushedKey[1] \notin Whitespace

\* entries with the keys "a: b" and "k " (ending in a blank) were pushed
C8_Witness ==
    /\ EntryJustPushed
    /\ PushedKey \in {<<"a", ":", " ", "b">>, <<"k", " ">>}
    /\ Cardinality(Readings(PushedLine)) = 1

\* C9: every header line yields exactly one Section, named by the full
\* trimmed line, with adapter and entries empty when it is opened; a
\* successful result has as many sections as the text has header lines,
\* and a header directly followed by a header or by the end of the text
\* keeps its Section, with empty entries.
C9_OneSectionPerHeader ==
    /\ pc = "loop" /\ pos > 1 /\ IsHeaderLine(Trimmed(pos - 1)) =>
          current_section = Some([name |-> Trimmed(pos - 1), adapter |-> <<>>,
                                  entries |-> <<>>])
    /\ Done =>
          IF HeaderIdx = {} THEN ~Returned.ok
          ELSE /\ Returned.ok
               /\ Len(Returned.val) = Cardinality(HeaderIdx)
               /\ \A j \in 1..Cardinality(HeaderIdx) :
                     /\ Returned.val[j].name = Trimmed(HeaderAt(j))
                     /\ HeaderAt(j) = SpanEnd(j) =>
                           /\ Returned.val[j].entries = <<>>
                           /\ Returned.val[j].adapter = <<>>

\* a header directly followed by a header and a header at the end of the
\* text: both sections are there, empty
C9_Witness ==
    /\ Done /\ Returned.ok /\ Len(Returned.val) >= 2
    /\ HeaderAt(2) = HeaderAt(1) + 1
    /\ HeaderAt(Len(Returned.val)) = Len(TextLines)
    /\ Returned.val[1].entries = <<>>
    /\ Returned.val[Len(Returned.val)].entries = <<>>

AllEntries(secs) == Concat([j \in 1..Len(secs) |-> secs[j].entries])

\* C10: a step of the parse never changes a sealed section: it leaves
\* `sections` as it is or appends the section that was open, and the
\* entries held by all sections together stay as they are or gain one at
\* the end, so no entry is moved or held twice.
C10_SealedSectionsFrozen ==
    [][ /\ IsPrefix(sections, sections')
        /\ Len(sections') <= Len(sections) + 1
        /\ Len(sections') = Len(sections) + 1 =>
              /\ current_section # None
              /\ sections'[Len(sections')] = current_section[1]
        /\ LET old == AllEntries(sections \o current_section)
               new == AllEntries(sections' \o current_section')
           IN  \/ new = old
               \/ /\ EntryLine
                  /\ Len(new) = Len(old) + 1
                  /\ IsPrefix(old, new) ]_vars

\* a sealed section with an entry, and the open section has taken one too
C10_Witness ==
    /\ pc = "loop"
    /\ Len(sections) >= 1 /\ sections[1].entries # <<>>
    /\ current_section # None /\ current_section[1].entries # <<>>

====
